---- MODULE Spec2Model ----
(***************************************************************************)
(* Model of src/src/app/page.tsx: the React playground component Home      *)
(* (editor -> debounced compile -> iframe preview).                        *)
(*                                                                         *)
(* Execution model.  The page runs on the single browser event loop.  One  *)
(* action of the model is one event-loop task: the event handler, the      *)
(* state updates it queues, the re-render React performs for them and the  *)
(* effect cleanup / effect that the re-render triggers.  runCode contains  *)
(* no await, so a whole compile procedure is part of one task.             *)
(*                                                                         *)
(* Strings.  A document is modelled as the sequence of the segments the    *)
(* template literal concatenates; the empty string is the empty sequence.  *)
(***************************************************************************)
EXTENDS Integers, Sequences, FiniteSets, TLC

(* ------------------------------ bounds -------------------------------- *)
MaxEdits == 2
MaxClicks == 2
TickMs == 500

(* ------------------------- program constants -------------------------- *)
QuietPeriodMs == 1000

defaultCode == "function App() { const [count, setCount] = useState(0); return <h1>Hello</h1> }"

\* Source texts the editor can hold.  One text per behaviour of transform:
\* the starter text, a second valid text, the empty text, a text with an
\* unmatched brace, and a text whose rejection is not an Error instance.
ValidText == "function App() { return <p>v2</p> }"
EmptyText == ""
BrokenText == "function App() {"
OddText == "function App() { /* rejected with a non-Error value */"

Texts == {defaultCode, ValidText, EmptyText, BrokenText, OddText}

\* Argument of the editor's onChange: <<>> is undefined, <<t>> the string t.
EditorValues == {<<>>} \cup {<<t>> : t \in Texts}

\* value || defaultCode: a missing value restores the starter text.
OrEmpty_fallbackDefault(value) == IF value = <<>> THEN defaultCode ELSE IF value[1] = "" THEN defaultCode ELSE value[1]

\* value || ''
OrEmpty(value) == IF value = <<>> THEN "" ELSE IF value[1] = "" THEN "" ELSE value[1]

(* --------------------------- transform -------------------------------- *)
\* transform(code, {presets}) either returns {code} or throws.
transform(c) ==
  CASE c = defaultCode -> [kind |-> "ok", code |-> "function App() { var _useState = useState(0); return React.createElement('h1', null, 'Hello') }", isError |-> FALSE, message |-> ""]
    [] c = ValidText   -> [kind |-> "ok", code |-> "function App() { return React.createElement('p', null, 'v2') }", isError |-> FALSE, message |-> ""]
    [] c = EmptyText   -> [kind |-> "ok", code |-> "", isError |-> FALSE, message |-> ""]
    [] c = BrokenText  -> [kind |-> "throw", code |-> "", isError |-> TRUE, message |-> "unknown: Unexpected token (1:16)"]
    [] OTHER           -> [kind |-> "throw", code |-> "", isError |-> FALSE, message |-> "message of a value that is not an Error"]

(* --------------------------- documents -------------------------------- *)
Range(s) == {s[i] : i \in 1..Len(s)}

ReactScript == "<script crossorigin src=https://unpkg.com/react@18/umd/react.development.js></script>"
ReactDomScript == "<script crossorigin src=https://unpkg.com/react-dom@18/umd/react-dom.development.js></script>"
BabelScript == "<script src=https://unpkg.com/@babel/standalone/babel.min.js></script>"
RenderCall == "root.render(<App />);"
ErrorHeading == "Error:"
UnknownErrorMessage == "An unknown error occurred"

\* The template literal of the success branch.
iframeContent(transpiledCode) ==
  << "<!DOCTYPE html>", "<html>", "<head>",
     ReactScript, ReactDomScript, BabelScript,
     "<style>body { margin: 0; padding: 20px; }</style>",
     "</head>", "<body>", "<div id=root></div>",
     "<script type=text/babel>",
     "const { useState } = React;",
     transpiledCode,
     "const root = ReactDOM.createRoot(document.getElementById('root'));",
     RenderCall,
     "</script>", "</body>", "</html>" >>

\* The message read without the instanceof narrowing.
errorMessage_noNarrowing(error) == error.message

\* error instanceof Error ? error.message : 'An unknown error occurred'
errorMessage(error) == IF error.isError THEN error.message ELSE UnknownErrorMessage

\* The template literal of the catch branch.
errorDocument(message) ==
  << "<!DOCTYPE html>", "<html>", "<body>",
     "<div style=color: red; padding: 20px;>",
     "<h3>", ErrorHeading, "</h3>",
     "<pre>", message, "</pre>",
     "</div>", "</body>", "</html>" >>

(* ----------------------------- runCode -------------------------------- *)
\* A state update queued by a setter: [var, val].
SetIsCompiling(b) == [var |-> "isCompiling", val |-> b]
SetOutput(doc) == [var |-> "output", val |-> doc]

NoError == [pending |-> FALSE, isError |-> FALSE, message |-> ""]
Thrown(r) == [pending |-> TRUE, isError |-> r.isError, message |-> r.message]

\* A try block that returns early on an empty source text.
tryBlock_skipEmpty(c) ==
  IF c = "" THEN [updates |-> <<>>, error |-> NoError, threw |-> FALSE]
  ELSE LET r == transform(c)
       IN IF r.kind = "ok"
            THEN [updates |-> << SetIsCompiling(TRUE), SetOutput(iframeContent(r.code)) >>,
                  error |-> NoError, threw |-> FALSE]
            ELSE [updates |-> << SetIsCompiling(TRUE) >>,
                  error |-> Thrown(r), threw |-> TRUE]

\* A try block that publishes a placeholder before it calls transform.
tryBlock_publishFirst(c) ==
  LET r == transform(c)
  IN IF r.kind = "ok"
       THEN [updates |-> << SetIsCompiling(TRUE), SetOutput(iframeContent("")), SetOutput(iframeContent(r.code)) >>,
             error |-> NoError, threw |-> FALSE]
       ELSE [updates |-> << SetIsCompiling(TRUE), SetOutput(iframeContent("")) >>,
             error |-> Thrown(r), threw |-> TRUE]

\* try { setIsCompiling(true); transform; setOutput(iframeContent) }
tryBlock(c) ==
  LET r == transform(c)
  IN IF r.kind = "ok"
       THEN [updates |-> << SetIsCompiling(TRUE), SetOutput(iframeContent(r.code)) >>,
             error |-> NoError, threw |-> FALSE]
       ELSE [updates |-> << SetIsCompiling(TRUE) >>,
             error |-> Thrown(r), threw |-> TRUE]

\* A catch block that logs the error and publishes nothing.
catchBlock_noPublish(t) == [t EXCEPT !.error = NoError]

\* A catch block that publishes and rethrows.
catchBlock_rethrow(t) ==
  IF t.error.pending
    THEN [t EXCEPT !.updates = Append(t.updates, SetOutput(errorDocument(errorMessage(t.error))))]
    ELSE t

\* catch (error) { setOutput(error document) }
catchBlock(t) ==
  IF t.error.pending
    THEN [t EXCEPT !.updates = Append(t.updates, SetOutput(errorDocument(errorMessage(t.error)))),
                   !.error = NoError]
    ELSE t

\* The reset missing altogether.
finallyBlock_skip(t) == t

\* The reset as the last statement of the try block instead of a finally.
finallyBlock_tryOnly(t) ==
  IF t.threw THEN t ELSE [t EXCEPT !.updates = Append(t.updates, SetIsCompiling(FALSE))]

\* finally { setIsCompiling(false) }
finallyBlock(t) == [t EXCEPT !.updates = Append(t.updates, SetIsCompiling(FALSE))]

\* runCode as called from a closure that captured the source text c:
\* the state updates it queues, in order, and the error that leaves it.
runCode(c) == finallyBlock(catchBlock(tryBlock(c)))

\* A published document kept as a cache: later setOutput calls are dropped.
RECURSIVE applyUpdates_cacheOutput(_, _)
applyUpdates_cacheOutput(st, us) ==
  IF us = <<>> THEN st
  ELSE IF Head(us).var = "output" /\ st.output # <<>>
         THEN applyUpdates_cacheOutput(st, Tail(us))
         ELSE applyUpdates_cacheOutput([st EXCEPT ![Head(us).var] = Head(us).val], Tail(us))

\* React applies the queued updates of one task in order.
RECURSIVE applyUpdates(_, _)
applyUpdates(st, us) ==
  IF us = <<>> THEN st
  ELSE applyUpdates([st EXCEPT ![Head(us).var] = Head(us).val], Tail(us))

(* ------------------------------ render -------------------------------- *)
\* The iframe given allow-same-origin next to allow-scripts.
render_sameOrigin(st) ==
  [ buttonDisabled |-> st.isCompiling,
    buttonLabel |-> IF st.isCompiling THEN "Compiling..." ELSE "Compile",
    onClickCode |-> st.code,
    srcDoc |-> st.output,
    sandbox |-> {"allow-scripts", "allow-same-origin"} ]

\* What Home returns for a given state: the props that matter.
render(st) ==
  [ buttonDisabled |-> st.isCompiling,
    buttonLabel |-> IF st.isCompiling THEN "Compiling..." ELSE "Compile",
    onClickCode |-> st.code,
    srcDoc |-> st.output,
    sandbox |-> {"allow-scripts"} ]

(* ------------------------------- state -------------------------------- *)
VARIABLES
  code,          \* useState(defaultCode)
  output,        \* useState('')
  isCompiling,   \* useState(false)
  timers,        \* pending setTimeout(runCode, 1000) calls: [id, left, closureCode]
  debounceTimer, \* handle held by the cleanup of the last effect run
  nextTimerId,   \* next handle setTimeout returns
  view,          \* what the last render handed to the DOM
  \* history
  nEdits, nClicks,
  lastValue,     \* argument of the last onChange notification, <<"none">> before the first
  lastRun,       \* the last execution of runCode
  uncaught,      \* an error left runCode
  cancelled,     \* handles passed to clearTimeout while pending
  fired,         \* handles whose callback ran
  burstLen,      \* source-text updates of the current burst (each < quiet period after the previous)
  burstRuns,     \* runCode executions since the first update of the burst
  burstManual,   \* manual triggers since the first update of the burst
  runsSinceEdit, \* runCode executions since the source text last changed (or since mount)
  clicksSinceEdit, \* manual triggers since the source text last changed (or since mount)
  clickStreak,   \* manual triggers in immediate succession (no other event between)
  streakRuns     \* runCode executions during that streak

\* State of one AIService object and of the one request made on it.
VARIABLES
  config,        \* config.maxRetries as passed to the constructor: <<>> absent, <<n>> the number n
  maxRetries,    \* this.maxRetries
  method,        \* the request method called, "none" before the call
  onTokenGiven,  \* the caller passed an onToken callback
  pc,            \* where the request is: idle, calling, backoff, streaming, returned, thrown
  attempts,      \* let attempts
  apiCalls,      \* calls of client.messages.create made so far
  callLog,       \* how each settled call ended, in order
  waits,         \* the delays of the backoff timers awaited so far, in ms
  tokens,        \* the arguments of the onToken calls so far
  chunksRead,    \* chunks the for-await loop has taken from the stream
  fullContent,   \* let fullContent
  result,        \* what the request method returned or threw
  caught         \* the value the last catch block received: <<>> none yet, <<e>> the value e

homeVars == << code, output, isCompiling, timers, debounceTimer, nextTimerId, view,
           nEdits, nClicks, lastValue, lastRun, uncaught, cancelled, fired,
           burstLen, burstRuns, burstManual, runsSinceEdit, clicksSinceEdit,
           clickStreak, streakRuns >>

aiVars == << config, maxRetries, method, onTokenGiven, pc, attempts, apiCalls, callLog,
             waits, tokens, chunksRead, fullContent, result, caught >>

vars == << homeVars, aiVars >>

state == [code |-> code, output |-> output, isCompiling |-> isCompiling]

NoRun == [seq |-> 0, trigger |-> "none", text |-> "", codeAtStart |-> "",
          updates |-> <<>>, prevOutput |-> <<>>, timerId |-> 0,
          prevTrigger |-> "none", prevText |-> ""]

\* No onChange notification yet.
NoValue == <<"none", "none">>

\* The callback of an effect with deps []: the runCode of the first render.
setTimeoutRunCode_stale(id, c) == [id |-> id, left |-> QuietPeriodMs, closureCode |-> defaultCode]

\* useEffect body: const debounceTimer = setTimeout(runCode, 1000)
setTimeoutRunCode(id, c) == [id |-> id, left |-> QuietPeriodMs, closureCode |-> c]

\* An effect that returns no cleanup.
clearTimeout_noop(ts, id) == ts

\* effect cleanup: clearTimeout(debounceTimer)
clearTimeout(ts, id) == {t \in ts : t.id # id}

NoResult == [kind |-> "none"]

\* Home never constructs an AIService: the object stays unused.
ServiceUnused ==
  /\ config = <<>>
  /\ maxRetries = 0
  /\ method = "none"
  /\ onTokenGiven = FALSE
  /\ pc = "unused"
  /\ attempts = 0
  /\ apiCalls = 0
  /\ callLog = <<>>
  /\ waits = <<>>
  /\ tokens = <<>>
  /\ chunksRead = <<>>
  /\ fullContent = <<>>
  /\ result = NoResult
  /\ caught = <<>>

HomeInit ==
  /\ code = defaultCode
  /\ output = <<>>
  /\ isCompiling = FALSE
  /\ timers = {setTimeoutRunCode(1, defaultCode)}
  /\ debounceTimer = 1
  /\ nextTimerId = 2
  /\ view = render([code |-> defaultCode, output |-> <<>>, isCompiling |-> FALSE])
  /\ nEdits = 0
  /\ nClicks = 0
  /\ lastValue = NoValue
  /\ lastRun = NoRun
  /\ uncaught = FALSE
  /\ cancelled = {}
  /\ fired = {}
  /\ burstLen = 0
  /\ burstRuns = 0
  /\ burstManual = 0
  /\ runsSinceEdit = 0
  /\ clicksSinceEdit = 0
  /\ clickStreak = 0
  /\ streakRuns = 0

Init == HomeInit /\ ServiceUnused

\* The effect of one execution of runCode from a closure holding text c.
Execute(c, trigger, id) ==
  LET r == runCode(c)
      st == applyUpdates(state, r.updates)
  IN /\ output' = st.output
     /\ isCompiling' = st.isCompiling
     /\ code' = st.code
     /\ view' = render(st)
     /\ uncaught' = (uncaught \/ r.error.pending)
     /\ lastRun' = [seq |-> lastRun.seq + 1, trigger |-> trigger, text |-> c,
                    codeAtStart |-> code, updates |-> r.updates,
                    prevOutput |-> output, timerId |-> id,
                    prevTrigger |-> lastRun.trigger, prevText |-> lastRun.text]
     /\ burstRuns' = burstRuns + 1
     /\ runsSinceEdit' = runsSinceEdit + 1

\* Editor onChange={(value) => setCode(value || '')}, the re-render, and the
\* effect with deps [code]: cleanup of the previous run, then a new timer.
\* A setCode with the value the state already has is dropped by React: no
\* re-render and no effect run.
EditorOnChange(value) ==
  LET c == OrEmpty(value)
      st == [state EXCEPT !.code = c]
      inQuiet == \E t \in timers : t.id = debounceTimer /\ t.left > 0
  IN /\ nEdits < MaxEdits
     /\ nEdits' = nEdits + 1
     /\ lastValue' = value
     /\ clickStreak' = 0
     /\ streakRuns' = 0
     /\ UNCHANGED << output, isCompiling, lastRun, uncaught, fired, nClicks >>
     /\ UNCHANGED aiVars
     /\ IF c = code
          THEN UNCHANGED << code, timers, debounceTimer, nextTimerId, view,
                            cancelled, burstLen, burstRuns, burstManual,
                            runsSinceEdit, clicksSinceEdit >>
          ELSE /\ code' = c
               /\ runsSinceEdit' = 0
               /\ clicksSinceEdit' = 0
               /\ view' = render(st)
               /\ timers' = clearTimeout(timers, debounceTimer)
                              \cup {setTimeoutRunCode(nextTimerId, c)}
               /\ cancelled' = cancelled \cup {t.id : t \in {u \in timers : u.id = debounceTimer}}
               /\ debounceTimer' = nextTimerId
               /\ nextTimerId' = nextTimerId + 1
               /\ IF burstLen >= 1 /\ inQuiet
                    THEN /\ burstLen' = burstLen + 1
                         /\ UNCHANGED << burstRuns, burstManual >>
                    ELSE /\ burstLen' = 1
                         /\ burstRuns' = 0
                         /\ burstManual' = 0

\* A due timer runs its callback: the runCode of the render that armed it.
DebounceTimerFires(t) ==
  /\ t \in timers
  /\ t.left = 0
  /\ timers' = timers \ {t}
  /\ fired' = fired \cup {t.id}
  /\ Execute(t.closureCode, "timer", t.id)
  /\ clickStreak' = 0
  /\ streakRuns' = 0
  /\ UNCHANGED << debounceTimer, nextTimerId, nEdits, nClicks, lastValue, cancelled,
                  burstLen, burstManual, clicksSinceEdit >>
  /\ UNCHANGED aiVars

\* A manual trigger that also clears the pending debounce timer.
CompileButtonClick_clearsTimer ==
  /\ nClicks < MaxClicks
  /\ ~view.buttonDisabled
  /\ nClicks' = nClicks + 1
  /\ Execute(view.onClickCode, "click", 0)
  /\ clickStreak' = clickStreak + 1
  /\ streakRuns' = streakRuns + 1
  /\ burstManual' = burstManual + 1
  /\ clicksSinceEdit' = clicksSinceEdit + 1
  /\ timers' = clearTimeout(timers, debounceTimer)
  /\ UNCHANGED << debounceTimer, nextTimerId, nEdits, lastValue, cancelled, fired,
                  burstLen >>
  /\ UNCHANGED aiVars

\* <button onClick={runCode} disabled={isCompiling}>
CompileButtonClick ==
  /\ nClicks < MaxClicks
  /\ ~view.buttonDisabled
  /\ nClicks' = nClicks + 1
  /\ Execute(view.onClickCode, "click", 0)
  /\ clickStreak' = clickStreak + 1
  /\ streakRuns' = streakRuns + 1
  /\ burstManual' = burstManual + 1
  /\ clicksSinceEdit' = clicksSinceEdit + 1
  /\ UNCHANGED << timers, debounceTimer, nextTimerId, nEdits, lastValue, cancelled, fired,
                  burstLen >>
  /\ UNCHANGED aiVars

\* Time passes; a timer that is due runs before more time passes.
TimePasses ==
  /\ timers # {}
  /\ \A t \in timers : t.left > 0
  /\ timers' = {[t EXCEPT !.left = IF t.left > TickMs THEN t.left - TickMs ELSE 0] : t \in timers}
  /\ UNCHANGED << code, output, isCompiling, debounceTimer, nextTimerId, view,
                  nEdits, nClicks, lastValue, lastRun, uncaught, cancelled, fired,
                  burstLen, burstRuns, burstManual, runsSinceEdit, clicksSinceEdit,
                  clickStreak, streakRuns >>
  /\ UNCHANGED aiVars

Next ==
  \/ \E value \in EditorValues : EditorOnChange(value)
  \/ \E t \in timers : DebounceTimerFires(t)
  \/ CompileButtonClick
  \/ TimePasses

Spec == Init /\ [][Next]_vars

\* The browser runs a due timer and time does not stop.
LiveSpec == Spec /\ WF_vars(TimePasses) /\ WF_vars(\E t \in timers : DebounceTimerFires(t))

TypeOK ==
  /\ code \in Texts
  /\ isCompiling \in BOOLEAN
  /\ nEdits \in 0..MaxEdits
  /\ nClicks \in 0..MaxClicks
  /\ \A t \in timers : t.left \in 0..QuietPeriodMs /\ t.closureCode \in Texts

(* ============================ AIService =============================== *)
(* One AIService object and one request on it.  A request method is an     *)
(* async function: every await is a point where it is suspended, and the   *)
(* settling of the awaited promise is a step of its own.                   *)

\* bounds of the service model
MaxBudget == 3
MaxChunks == 3

DefaultMaxRetries == 3
BackoffUnitMs == 1000
DefaultStatus == 500

\* config.maxRetries: absent, or an integer.
ConfigMaxRetries == {<<>>} \cup {<<n>> : n \in -1..MaxBudget}

\* this.maxRetries = config.maxRetries || 3
constructorMaxRetries(cfg) ==
  IF cfg = <<>> THEN DefaultMaxRetries
  ELSE IF cfg[1] = 0 THEN DefaultMaxRetries ELSE cfg[1]

\* The request methods; the first three delegate to createChatCompletion.
CompletionMethods == {"sendMessage", "chat", "createChatCompletionWithFunctions"}
Methods == CompletionMethods \cup {"streamChatCompletion", "countTokens"}

\* Values a call of client.messages.create can reject with: an Error with a
\* status and a code, an Error with neither, and a value that is not an Error.
ApiStatusError == [isError |-> TRUE, message |-> "429 rate_limit_error", hasStatus |-> TRUE, status |-> 429, hasCode |-> TRUE, code |-> "rate_limit"]
ConnectionError == [isError |-> TRUE, message |-> "Connection error.", hasStatus |-> FALSE, status |-> 0, hasCode |-> FALSE, code |-> ""]
NonErrorValue == [isError |-> FALSE, message |-> "", hasStatus |-> FALSE, status |-> 0, hasCode |-> FALSE, code |-> ""]
RawErrors == {ApiStatusError, ConnectionError, NonErrorValue}

\* response.content[0].text of a response without content.
ContentTypeError == [isError |-> TRUE, message |-> "Cannot read properties of undefined (reading 'text')", hasStatus |-> FALSE, status |-> 0, hasCode |-> FALSE, code |-> ""]

\* Responses the API can resolve with.
Responses ==
  { [hasContent |-> TRUE, text |-> "Hello", hasUsage |-> TRUE, input_tokens |-> 3, output_tokens |-> 5],
    [hasContent |-> TRUE, text |-> "Hi", hasUsage |-> FALSE, input_tokens |-> 0, output_tokens |-> 0],
    [hasContent |-> FALSE, text |-> "", hasUsage |-> TRUE, input_tokens |-> 2, output_tokens |-> 0] }

\* Chunks of a stream; text is a sequence of characters.
Chunks ==
  { [hasContent |-> TRUE, text |-> <<"a">>],
    [hasContent |-> TRUE, text |-> <<"b", "c">>],
    [hasContent |-> TRUE, text |-> <<>>],
    [hasContent |-> FALSE, text |-> <<>>] }

\* new AIError(message, statusCode, code); code is <<>> when undefined.
AIError(message, statusCode, errCode) ==
  [name |-> "AIError", message |-> message, statusCode |-> statusCode, code |-> errCode]

\* The status ignored: always 500.
statusOf_always500(error) == DefaultStatus

\* 'status' in error ? error.status : 500
statusOf(error) == IF error.hasStatus THEN error.status ELSE DefaultStatus

\* 'code' in error ? error.code : undefined
codeOf(error) == IF error.hasCode THEN <<error.code>> ELSE <<>>

\* if (error instanceof Error) throw new AIError(...); throw new AIError(generic, 500)
wrapError(error, generic) ==
  IF error.isError
    THEN AIError(error.message, statusOf(error), codeOf(error))
    ELSE AIError(generic, DefaultStatus, <<>>)

GenericMessage(m) ==
  CASE m \in CompletionMethods -> "Failed to create chat completion"
    [] m = "streamChatCompletion" -> "Failed to stream chat completion"
    [] OTHER -> "Failed to count tokens"

MaxRetriesExceeded == AIError("Max retries exceeded", DefaultStatus, <<>>)

\* The delay computed from attempts before its increment.
backoffDelay_beforeIncrement(att) == 2^(att - 1) * BackoffUnitMs

\* Math.pow(2, attempts) * 1000
backoffDelay(att) == 2^att * BackoffUnitMs

\* while (attempts < this.maxRetries)
loopContinues(att, n) == att < n

\* The budget test written as attempts > maxRetries.
budgetSpent_greater(att, n) == att > n

\* if (attempts === this.maxRetries)
budgetSpent(att, n) == att = n

\* The value createChatCompletion returns for a response.
completionOf(resp) ==
  [ content |-> resp.text,
    promptTokens |-> IF resp.hasUsage THEN resp.input_tokens ELSE 0,
    completionTokens |-> IF resp.hasUsage THEN resp.output_tokens ELSE 0,
    totalTokens |-> (IF resp.hasUsage THEN resp.input_tokens ELSE 0)
                      + (IF resp.hasUsage THEN resp.output_tokens ELSE 0) ]

\* chunk.content[0]?.text || ''
chunkToken(chunk) == IF chunk.hasContent THEN chunk.text ELSE <<>>

\* fullContent = token: the assignment in place of +=.
appendToken_assign(full, token) == token

\* fullContent += token
appendToken(full, token) == full \o token

Returned(v) == [kind |-> "return", value |-> v]
Threw(e) == [kind |-> "throw", error |-> e]

\* The service after its constructor, before any request.
ServiceConstructed ==
  /\ config \in ConfigMaxRetries
  /\ maxRetries = constructorMaxRetries(config)
  /\ method = "none"
  /\ onTokenGiven = FALSE
  /\ pc = "idle"
  /\ attempts = 0
  /\ apiCalls = 0
  /\ callLog = <<>>
  /\ waits = <<>>
  /\ tokens = <<>>
  /\ chunksRead = <<>>
  /\ fullContent = <<>>
  /\ result = NoResult
  /\ caught = <<>>

AIInit == HomeInit /\ ServiceConstructed

\* The head of the while loop of createChatCompletion with attempts = att:
\* the next call of the API, or the throw after the loop.
LoopHead(att) ==
  IF loopContinues(att, maxRetries)
    THEN /\ pc' = "calling"
         /\ apiCalls' = apiCalls + 1
         /\ result' = result
    ELSE /\ pc' = "thrown"
         /\ apiCalls' = apiCalls
         /\ result' = Threw(MaxRetriesExceeded)

\* A caller invokes one request method.
Request(m, cb) ==
  /\ pc = "idle"
  /\ method' = m
  /\ onTokenGiven' = cb
  /\ IF m \in CompletionMethods
       THEN LoopHead(0)
       ELSE /\ pc' = "calling"
            /\ apiCalls' = apiCalls + 1
            /\ result' = result
  /\ UNCHANGED << config, maxRetries, attempts, callLog, waits, tokens, chunksRead, fullContent, caught >>
  /\ UNCHANGED homeVars

\* The catch block of createChatCompletion for the caught value e.
CompletionCatch(e) ==
  /\ caught' = <<e>>
  /\ attempts' = attempts + 1
  /\ IF budgetSpent(attempts + 1, maxRetries)
       THEN /\ pc' = "thrown"
            /\ result' = Threw(wrapError(e, GenericMessage(method)))
            /\ waits' = waits
       ELSE /\ pc' = "backoff"
            /\ result' = result
            /\ waits' = Append(waits, backoffDelay(attempts + 1))

\* The awaited call of client.messages.create rejects with e.
ApiRejects(e) ==
  /\ pc = "calling"
  /\ callLog' = Append(callLog, [ok |-> FALSE, error |-> e, response |-> <<>>])
  /\ IF method \in CompletionMethods
       THEN CompletionCatch(e)
       ELSE /\ pc' = "thrown"
            /\ caught' = <<e>>
            /\ result' = Threw(wrapError(e, GenericMessage(method)))
            /\ UNCHANGED << attempts, waits >>
  /\ UNCHANGED << config, maxRetries, method, onTokenGiven, apiCalls, tokens, chunksRead, fullContent >>
  /\ UNCHANGED homeVars

\* The awaited call of client.messages.create resolves with resp.
ApiResolves(resp) ==
  /\ pc = "calling"
  /\ IF method \in CompletionMethods
       THEN IF resp.hasContent
              THEN /\ callLog' = Append(callLog, [ok |-> TRUE, error |-> <<>>, response |-> <<resp>>])
                   /\ pc' = "returned"
                   /\ result' = Returned(completionOf(resp))
                   /\ UNCHANGED << attempts, waits, caught >>
              ELSE /\ callLog' = Append(callLog, [ok |-> FALSE, error |-> ContentTypeError, response |-> <<resp>>])
                   /\ CompletionCatch(ContentTypeError)
       ELSE /\ callLog' = Append(callLog, [ok |-> TRUE, error |-> <<>>, response |-> <<resp>>])
            /\ UNCHANGED << attempts, waits, caught >>
            /\ IF method = "streamChatCompletion"
                 THEN /\ pc' = "streaming"
                      /\ result' = result
                 ELSE /\ pc' = "returned"
                      /\ result' = Returned(IF resp.hasUsage THEN resp.input_tokens ELSE 0)
  /\ UNCHANGED << config, maxRetries, method, onTokenGiven, apiCalls, tokens, chunksRead, fullContent >>
  /\ UNCHANGED homeVars

\* The backoff timer of createChatCompletion expires: back to the loop head.
BackoffElapses ==
  /\ pc = "backoff"
  /\ LoopHead(attempts)
  /\ UNCHANGED << config, maxRetries, method, onTokenGiven, attempts, callLog, waits,
                  tokens, chunksRead, fullContent, caught >>
  /\ UNCHANGED homeVars

\* The stream yields a chunk: one turn of the for-await loop.
StreamChunk(chunk) ==
  /\ pc = "streaming"
  /\ Len(chunksRead) < MaxChunks
  /\ chunksRead' = Append(chunksRead, chunk)
  /\ fullContent' = appendToken(fullContent, chunkToken(chunk))
  /\ tokens' = IF onTokenGiven THEN Append(tokens, chunkToken(chunk)) ELSE tokens
  /\ UNCHANGED << config, maxRetries, method, onTokenGiven, pc, attempts, apiCalls, callLog,
                  waits, result, caught >>
  /\ UNCHANGED homeVars

\* The stream ends: return { content: fullContent }.
StreamEnds ==
  /\ pc = "streaming"
  /\ pc' = "returned"
  /\ result' = Returned([content |-> fullContent])
  /\ UNCHANGED << config, maxRetries, method, onTokenGiven, attempts, apiCalls, callLog,
                  waits, tokens, chunksRead, fullContent, caught >>
  /\ UNCHANGED homeVars

\* The stream fails with e while it is being read.
StreamFails(e) ==
  /\ pc = "streaming"
  /\ pc' = "thrown"
  /\ caught' = <<e>>
  /\ result' = Threw(wrapError(e, GenericMessage(method)))
  /\ UNCHANGED << config, maxRetries, method, onTokenGiven, attempts, apiCalls, callLog,
                  waits, tokens, chunksRead, fullContent >>
  /\ UNCHANGED homeVars

AINext ==
  \/ \E m \in Methods, cb \in BOOLEAN : Request(m, cb)
  \/ \E e \in RawErrors : ApiRejects(e)
  \/ \E resp \in Responses : ApiResolves(resp)
  \/ BackoffElapses
  \/ \E chunk \in Chunks : StreamChunk(chunk)
  \/ StreamEnds
  \/ \E e \in RawErrors : StreamFails(e)

AISpec == AIInit /\ [][AINext]_vars

\* Every awaited promise settles: the API answers, timers expire, streams end.
AILiveSpec == AISpec /\ WF_vars(AINext)

Done == pc \in {"returned", "thrown"}

(* ------------------------- shapes of a document ----------------------- *)
IsSuccessDocument(doc) ==
  /\ doc # <<>>
  /\ Head(doc) = "<!DOCTYPE html>"
  /\ doc[Len(doc)] = "</html>"
  /\ {ReactScript, ReactDomScript, BabelScript, RenderCall} \subseteq Range(doc)
  /\ ErrorHeading \notin Range(doc)

IsErrorDocument(doc) ==
  /\ doc # <<>>
  /\ Head(doc) = "<!DOCTYPE html>"
  /\ doc[Len(doc)] = "</html>"
  /\ ErrorHeading \in Range(doc)
  /\ {ReactScript, ReactDomScript, BabelScript, RenderCall} \cap Range(doc) = {}

IsOutputDocument(doc) == IsSuccessDocument(doc) \/ IsErrorDocument(doc)

\* The text between <pre> and </pre> of an error document.
PreText(doc) == doc[9]

Rejected(c) == transform(c).kind = "throw"

\* The document a compile of text c is to publish.
DocumentFor(c) ==
  LET r == transform(c)
  IN IF r.kind = "ok"
       THEN iframeContent(r.code)
       ELSE errorDocument(IF r.isError THEN r.message ELSE UnknownErrorMessage)

TimerPending == timers # {}

(* ------------------------------- C1 ----------------------------------- *)
\* C1: debounce coalescing.  For a burst of N >= 1 source-text updates, each
\* less than the quiet period after the previous one, with no manual
\* trigger: no compile runs while the last update's timer is pending, and
\* once it is no longer pending exactly one compile has run since the first
\* update of the burst, started by the timer, on the text of the last update.
C1_DebounceCoalescing ==
  (burstLen >= 1 /\ burstManual = 0) =>
     /\ burstRuns <= 1
     /\ (burstRuns = 0) <=> TimerPending
     /\ (burstRuns = 1) => (lastRun.trigger = "timer" /\ lastRun.text = code)

C1_Witness ==
  /\ burstLen >= 2
  /\ burstManual = 0
  /\ burstRuns = 1
  /\ lastRun.text = code

(* ------------------------------- C2 ----------------------------------- *)
\* C2 as stated: two manual triggers in immediate succession produce exactly
\* one execution of the compile procedure.
C2_SecondClickIsNoOp ==
  (clickStreak >= 2) => (streakRuns = 1)

\* C2 amended: the manual trigger is never delivered while the status is
\* Compiling (the status is Idle and the button enabled whenever an event
\* can arrive), so every manual trigger runs the compile procedure once:
\* k triggers in immediate succession produce k executions.
C2_EveryClickCompiles ==
  /\ ~isCompiling
  /\ ~view.buttonDisabled
  /\ view.buttonLabel = "Compile"
  /\ streakRuns = clickStreak

C2_Witness ==
  /\ clickStreak = 2
  /\ streakRuns = 2
  /\ lastRun.trigger = "click"

(* ------------------------------- C3 ----------------------------------- *)
\* C3: the status is Idle in every state in which no compile procedure is
\* executing, after compiles that returned and after compiles whose
\* transformation threw; every execution sets Compiling first and Idle last.
C3_StatusReturnsToIdle ==
  /\ isCompiling = FALSE
  /\ (lastRun.seq >= 1) =>
        /\ Head(lastRun.updates) = SetIsCompiling(TRUE)
        /\ lastRun.updates[Len(lastRun.updates)] = SetIsCompiling(FALSE)

C3_Witness ==
  /\ lastRun.seq >= 2
  /\ Rejected(lastRun.text)
  /\ isCompiling = FALSE

(* ------------------------------- C4 ----------------------------------- *)
\* C4: no error leaves runCode, and after a compile of a rejected text the
\* published output is an error-shaped document carrying the failure's
\* message: not blank, not success-shaped, not what was published before.
C4_FailureIsPublished ==
  /\ ~uncaught
  /\ (lastRun.seq >= 1 /\ Rejected(lastRun.text)) =>
        /\ output # <<>>
        /\ IsErrorDocument(output)
        /\ transform(lastRun.text).isError => PreText(output) = transform(lastRun.text).message
        /\ output = DocumentFor(lastRun.text)
        /\ (lastRun.prevOutput # DocumentFor(lastRun.text)) => output # lastRun.prevOutput

C4_Witness ==
  /\ lastRun.seq >= 2
  /\ Rejected(lastRun.text)
  /\ IsSuccessDocument(lastRun.prevOutput)
  /\ IsErrorDocument(output)

(* ------------------------------- C5 ----------------------------------- *)
\* C5: no compile is in flight between two events (each execution starts and
\* finishes inside one task, so at most one is ever in flight), and once a
\* compile has run the published output is the document of the compile that
\* started most recently.
C5_LatestCompileWins ==
  /\ ~isCompiling
  /\ (lastRun.seq >= 1) =>
        /\ output = DocumentFor(lastRun.text)
        /\ Cardinality({i \in 1..Len(lastRun.updates) : lastRun.updates[i].var = "output"}) = 1

C5_Witness ==
  /\ lastRun.seq >= 3
  /\ lastRun.prevOutput # output
  /\ nClicks >= 1
  /\ fired # {}

(* ------------------------------- C6 ----------------------------------- *)
\* C6 as stated: in every reachable state the iframe's srcDoc is a complete
\* output document.
C6_SrcDocAlwaysDocument == IsOutputDocument(view.srcDoc)

\* C6 amended: from mount until the first compile procedure has executed the
\* srcDoc is the empty string; from then on it is a complete output
\* document, success-shaped or error-shaped, also for the empty source text.
C6_SrcDocAfterFirstCompile ==
  /\ view.srcDoc = output
  /\ (lastRun.seq = 0) => (view.srcDoc = <<>>)
  /\ (lastRun.seq >= 1) => IsOutputDocument(view.srcDoc)

C6_Witness ==
  /\ lastRun.seq >= 1
  /\ lastRun.text = ""
  /\ code = ""
  /\ IsOutputDocument(view.srcDoc)

(* ------------------------------- C7 ----------------------------------- *)
\* C7: whenever a debounce timer is pending (after mount, after an edit) and
\* the edits come to an end, the timer eventually runs a compile on the
\* current source text and the published output becomes the document for
\* that text, whatever the published output was before.
C7_EditLeadsToRender ==
  TimerPending ~> (~TimerPending /\ lastRun.text = code /\ output = DocumentFor(code))

C7_Witness ==
  /\ lastRun.trigger = "timer"
  /\ IsErrorDocument(lastRun.prevOutput)
  /\ IsSuccessDocument(output)
  /\ output = DocumentFor(code)
  /\ ~TimerPending

(* ------------------------------- C8 ----------------------------------- *)
\* C8: at most one debounce timer is pending, it is the one the last effect
\* run armed and its callback holds the current source text; no cancelled
\* timer ever ran; a compile started by a timer used the source text that
\* was current when it started.
C8_DebounceCancellation ==
  /\ Cardinality(timers) <= 1
  /\ \A t \in timers : t.id = debounceTimer /\ t.closureCode = code
  /\ fired \cap cancelled = {}
  /\ (lastRun.trigger = "timer") => (lastRun.text = lastRun.codeAtStart)

C8_Witness ==
  /\ Cardinality(cancelled) >= 2
  /\ lastRun.trigger = "timer"
  /\ lastRun.timerId \notin cancelled
  /\ lastRun.text = code
  /\ lastRun.text # defaultCode

(* ------------------------------- C9 ----------------------------------- *)
\* C9: the document published for a rejected text contains "Error:", its
\* message is the thrown value's message when that value is an Error and
\* 'An unknown error occurred' otherwise, and it contains none of the
\* runtime bootstrap (React, ReactDOM, Babel scripts, root.render).
C9_ErrorDocumentShape ==
  (lastRun.seq >= 1 /\ Rejected(lastRun.text)) =>
     LET r == transform(lastRun.text)
     IN /\ ErrorHeading \in Range(output)
        /\ r.isError => PreText(output) = r.message
        /\ ~r.isError => PreText(output) = UnknownErrorMessage
        /\ ReactScript \notin Range(output)
        /\ ReactDomScript \notin Range(output)
        /\ BabelScript \notin Range(output)
        /\ RenderCall \notin Range(output)

C9_Witness ==
  /\ lastRun.seq >= 1
  /\ Rejected(lastRun.text)
  /\ ~transform(lastRun.text).isError
  /\ PreText(output) = UnknownErrorMessage

(* ------------------------------- C10 ---------------------------------- *)
\* C10: in every reachable state the iframe is rendered with the sandbox
\* capability set {allow-scripts}, whatever document it holds.
C10_SandboxScriptsOnly ==
  /\ view.sandbox = {"allow-scripts"}
  /\ "allow-same-origin" \notin view.sandbox

C10_Witness ==
  /\ IsErrorDocument(view.srcDoc)
  /\ IsSuccessDocument(lastRun.prevOutput)
  /\ view.sandbox = {"allow-scripts"}

(* ------------------------------- C11 ---------------------------------- *)
\* C11: the stored source text is always a string (never a missing value);
\* after a change notification it is the whole text the notification
\* carried, unaltered also when the transformation rejects it, and the
\* empty string when the notification carried no value.
C11_SourceTextStoredAsIs ==
  /\ code \in Texts
  /\ (lastValue = NoValue) => (code = defaultCode)
  /\ (lastValue = <<>>) => (code = "")
  /\ (lastValue \notin {NoValue, <<>>}) => (code = lastValue[1])

C11_Witness ==
  /\ lastValue = <<>>
  /\ code = ""
  /\ lastRun.prevText = BrokenText
  /\ lastRun.text = ""

(* ------------------------------- C12 ---------------------------------- *)
\* C12: every execution of the compile procedure, on the source text
\* current at its start, queues exactly: status Compiling, one published
\* document, status Idle, in that order; the document is success-shaped
\* exactly when the transformation returned for that text and error-shaped
\* exactly when it threw.
C12_CompileProcedureSteps ==
  (lastRun.seq >= 1) =>
     /\ lastRun.text = lastRun.codeAtStart
     /\ Len(lastRun.updates) = 3
     /\ lastRun.updates[1] = SetIsCompiling(TRUE)
     /\ lastRun.updates[2].var = "output"
     /\ lastRun.updates[3] = SetIsCompiling(FALSE)
     /\ IsSuccessDocument(lastRun.updates[2].val) <=> ~Rejected(lastRun.text)
     /\ IsErrorDocument(lastRun.updates[2].val) <=> Rejected(lastRun.text)

C12_Witness ==
  /\ lastRun.seq >= 2
  /\ Len(lastRun.updates) = 3
  /\ IsErrorDocument(lastRun.updates[2].val)
  /\ lastRun.prevText # lastRun.text
  /\ ~Rejected(lastRun.prevText)

(* ------------------------------- C13 ---------------------------------- *)
\* C13: the published document depends only on the source text of the
\* compile: whatever the output was before, a compile of text t leaves the
\* document for t, and a compile of the same text as the previous compile
\* leaves the output as that previous compile left it.
C13_CompileIsFunctionOfText ==
  /\ \A t \in Texts : (lastRun.seq >= 1 /\ lastRun.text = t) => output = DocumentFor(t)
  /\ (lastRun.seq >= 2 /\ lastRun.prevText = lastRun.text) => output = lastRun.prevOutput

C13_Witness ==
  /\ lastRun.seq >= 2
  /\ lastRun.prevText = lastRun.text
  /\ lastRun.trigger = "click"
  /\ output = lastRun.prevOutput
  /\ output # <<>>

(* ------------------------------- C14 ---------------------------------- *)
\* C14: whenever no debounce timer is pending (no compile is ever executing
\* between two events), the published output is the document for the
\* current source text.
C14_Quiescence ==
  (~TimerPending) => (lastRun.seq >= 1 /\ output = DocumentFor(code))

C14_Witness ==
  /\ ~TimerPending
  /\ nEdits >= 1
  /\ Rejected(code)
  /\ output = DocumentFor(code)
  /\ nClicks = 0

(* ------------------------------- C15 ---------------------------------- *)
\* C15: a step that changes the source text leaves the output and the status
\* unchanged and arms a fresh timer; a manual trigger leaves the source text
\* and the pending timers unchanged; an update followed by exactly one manual
\* trigger and no further update therefore ends, once the timer has fired,
\* with two executions of the compile procedure, both on the current text.
C15_TriggerFrames ==
  /\ [][ (code' # code) =>
            /\ output' = output
            /\ isCompiling' = isCompiling
            /\ lastRun' = lastRun
            /\ debounceTimer' # debounceTimer ]_vars
  /\ [][ (nClicks' # nClicks) =>
            /\ code' = code
            /\ timers' = timers
            /\ debounceTimer' = debounceTimer ]_vars
  /\ []( (clicksSinceEdit = 1 /\ ~TimerPending) =>
            (runsSinceEdit = 2 /\ lastRun.text = code /\ lastRun.prevText = code) )

C15_Witness ==
  /\ nEdits >= 1
  /\ code # defaultCode
  /\ clicksSinceEdit = 1
  /\ runsSinceEdit = 2
  /\ lastRun.trigger = "timer"
  /\ lastRun.prevTrigger = "click"
  /\ lastRun.prevText = lastRun.text
  /\ ~TimerPending

(* ------------------------------- C16 ---------------------------------- *)
AllFailed(log) == \A i \in 1..Len(log) : ~log[i].ok

\* C16: a request through createChatCompletion ends, with a budget n that is
\* config.maxRetries, or 3 when that is absent or 0.  It makes at most n
\* API calls; it returns the response of the first call that succeeds and
\* makes no call after it; with n >= 1 and n failed calls it throws the
\* AIError built from the n-th failure after exactly n calls; and
\* 'Max retries exceeded' is thrown only when no call was made.
C16_RetryBudget ==
  /\ []( (method \in CompletionMethods) =>
           /\ (config = <<>> \/ config = <<0>>) => maxRetries = 3
           /\ (config # <<>> /\ config # <<0>>) => maxRetries = config[1]
           /\ apiCalls <= (IF maxRetries > 0 THEN maxRetries ELSE 0)
           /\ Len(callLog) <= apiCalls
           /\ (pc = "returned") =>
                 /\ apiCalls = Len(callLog)
                 /\ callLog[apiCalls].ok
                 /\ AllFailed(SubSeq(callLog, 1, apiCalls - 1))
                 /\ result.kind = "return"
                 /\ result.value.content = callLog[apiCalls].response[1].text
           /\ (pc = "thrown" /\ maxRetries >= 1) =>
                 /\ apiCalls = maxRetries
                 /\ Len(callLog) = maxRetries
                 /\ AllFailed(callLog)
                 /\ result.kind = "throw"
                 /\ result.error.name = "AIError"
                 /\ callLog[maxRetries].error.isError =>
                       result.error.message = callLog[maxRetries].error.message
           /\ (pc = "thrown" /\ result.error.message = "Max retries exceeded") => apiCalls = 0
           /\ (pc = "thrown" /\ apiCalls = 0) => result.error.message = "Max retries exceeded" )
  /\ (method \in CompletionMethods) ~> Done

C16_Witness ==
  /\ method \in CompletionMethods
  /\ config = <<0>>
  /\ pc = "thrown"
  /\ apiCalls = 3
  /\ callLog[1].error # callLog[3].error
  /\ result.error.message = callLog[3].error.message

(* ------------------------------- C17 ---------------------------------- *)
\* C17: in createChatCompletion the wait after the k-th failed attempt, made
\* only for k < maxRetries, is 2^k * 1000 ms; the waits grow strictly; a new
\* attempt starts only after the wait for the failure before it; there is
\* no wait after the last failed attempt and none after a success.
C17_ExponentialBackoff ==
  (method \in CompletionMethods) =>
     /\ \A k \in 1..Len(waits) : waits[k] = 2^k * 1000 /\ k < maxRetries
     /\ \A j, k \in 1..Len(waits) : (j < k) => waits[j] < waits[k]
     /\ (pc = "calling") => (Len(waits) = apiCalls - 1 /\ Len(callLog) = apiCalls - 1)
     /\ (pc = "backoff") => (Len(waits) = Len(callLog) /\ AllFailed(callLog))
     /\ (pc = "returned") => (Len(waits) = Len(callLog) - 1)
     /\ (pc = "thrown" /\ apiCalls >= 1) => (Len(waits) = Len(callLog) - 1)
     /\ (pc = "thrown" /\ apiCalls = 0) => (waits = <<>>)

C17_Witness ==
  /\ method \in CompletionMethods
  /\ pc = "thrown"
  /\ waits = <<2000, 4000>>
  /\ apiCalls = 3

(* ------------------------------- C18 ---------------------------------- *)
RECURSIVE Flatten(_)
Flatten(ss) == IF ss = <<>> THEN <<>> ELSE Head(ss) \o Flatten(Tail(ss))

\* The text a chunk carries, the empty string when it carries none.
TextOf(chunk) == IF chunk.hasContent THEN chunk.text ELSE <<>>

\* C18: streamChatCompletion makes exactly one API call and never waits or
\* retries; with an onToken callback, onToken has been called once per chunk
\* read, in stream order, with the chunk's text or the empty string; on
\* normal completion the returned content is the concatenation of those
\* tokens; when the call or the stream fails, an error is thrown and no
\* content is returned, whatever tokens were delivered.
C18_StreamTokens ==
  (method = "streamChatCompletion") =>
     /\ apiCalls = 1
     /\ attempts = 0
     /\ waits = <<>>
     /\ onTokenGiven =>
           /\ Len(tokens) = Len(chunksRead)
           /\ \A i \in 1..Len(chunksRead) : tokens[i] = TextOf(chunksRead[i])
     /\ (pc = "returned") =>
           /\ result.kind = "return"
           /\ result.value.content = Flatten([i \in 1..Len(chunksRead) |-> TextOf(chunksRead[i])])
           /\ onTokenGiven => result.value.content = Flatten(tokens)
     /\ (pc = "thrown") =>
           /\ result.kind = "throw"
           /\ "value" \notin DOMAIN result
           /\ result.error.name = "AIError"

C18_Witness ==
  /\ method = "streamChatCompletion"
  /\ onTokenGiven
  /\ pc = "thrown"
  /\ Len(tokens) = 3
  /\ tokens[2] = <<>>
  /\ ~chunksRead[2].hasContent
  /\ Flatten(tokens) # <<>>

(* ------------------------------- C19 ---------------------------------- *)
\* C19: whatever request method was called, what it throws is an AIError.
\* Built from a caught Error it carries that Error's message and its status,
\* or 500 when the Error has none; built from a caught value that is not an
\* Error it carries the method's fixed message and 500; thrown without a
\* caught value it is 'Max retries exceeded' with 500.
C19_OnlyAIErrorEscapes ==
  (pc = "thrown") =>
     /\ result.kind = "throw"
     /\ result.error.name = "AIError"
     /\ (caught = <<>>) =>
           (result.error.message = "Max retries exceeded" /\ result.error.statusCode = 500)
     /\ (caught # <<>>) =>
           LET u == caught[1]
           IN /\ u.isError =>
                    /\ result.error.message = u.message
                    /\ u.hasStatus => result.error.statusCode = u.status
                    /\ ~u.hasStatus => result.error.statusCode = 500
              /\ ~u.isError =>
                    /\ result.error.statusCode = 500
                    /\ result.error.message \in
                         { "Failed to create chat completion",
                           "Failed to stream chat completion",
                           "Failed to count tokens" }
                    /\ result.error.message # u.message

C19_Witness ==
  /\ pc = "thrown"
  /\ method = "countTokens"
  /\ caught = <<ApiStatusError>>
  /\ result.error.statusCode = 429
====
